---- MODULE Spec2Model ----
(***************************************************************************)
(* Brute-force k-nearest-neighbour search of src/main.cpp:                 *)
(* l2_distance, SearchResult and brute_force_search.                       *)
(*                                                                         *)
(* One behaviour is one call brute_force_search(query, database, k).  The  *)
(* scan loop, the drain loop and the final reverse/return are the actions. *)
(* Distances are floats in the code; here they are fixed-point numbers     *)
(* with Scale units per 1.0, so that sqrt rounds as a float sqrt does.     *)
(* Database positions are the code's 0-based indices; the TLA+ sequence    *)
(* database holds entry i at database[i + 1].                              *)
(***************************************************************************)
EXTENDS Integers, Sequences, FiniteSets, TLC

\* ---------------------------------------------------------------- bounds
MaxN == 3
MaxK == 3
MaxNegK == 1
Scale == 10

VARIABLES query, database, k, i, max_heap, results, cerr, pc

vars == <<query, database, k, i, max_heap, results, cerr, pc>>

\* ---------------------------------------------------------------- inputs
SeqsUpTo(S, n) == UNION {[1..m -> S] : m \in 0..n}

\* vector<float>: the dimensions and the component values of the vectors
Dims == {1, 2}

Values == {0, 1}

Vectors == UNION {[1..d -> Values] : d \in Dims}

Databases == SeqsUpTo(Vectors, MaxN)

\* int k: the code accepts any int, negative and zero included
Ks == (0 - MaxNegK)..MaxK

\* ---------------------------------------------------------------- l2_distance
RECURSIVE SqrtFrom(_, _)
SqrtFrom(x, r) == IF (r + 1) * (r + 1) > x THEN r ELSE SqrtFrom(x, r + 1)

\* sqrt(sum) in fixed point: the largest r with (r / Scale)^2 <= sum
sqrt(sum) == SqrtFrom(sum * Scale * Scale, 0)

RECURSIVE SumSq(_, _, _)
SumSq(a, b, j) ==
    IF j > Len(a) THEN 0
    ELSE (a[j] - b[j]) * (a[j] - b[j]) + SumSq(a, b, j + 1)

\* the value -1.0f returned for vectors of different dimensions
Sentinel == 0 - Scale

DimMismatch(a, b) == Len(a) # Len(b)

l2_distance(a, b) ==
    IF DimMismatch(a, b) THEN Sentinel ELSE sqrt(SumSq(a, b, 1))

\* ---------------------------------------------------------------- SearchResult
\* mutant: 1-based position stored as the index
SearchResult_OneBased(index, distance) == [index |-> index + 1, distance |-> distance]

SearchResult(index, distance) == [index |-> index, distance |-> distance]

\* bool operator<(const SearchResult&) : by distance only
Less(x, y) == x.distance < y.distance

\* ---------------------------------------------------------------- priority_queue
\* priority_queue<SearchResult, vector<SearchResult>, less<SearchResult>>.
\* max_heap is the underlying container.  top() is an element that is not
\* Less than any other; which one among elements of equal distance is not
\* fixed by the language, so it is a choice among the positions in Tops.

\* mutant: min-heap (greater<> comparator) instead of max-heap
Tops_MinHeap(h) == {p \in 1..Len(h) : \A q \in 1..Len(h) : ~Less(h[q], h[p])}

\* positions top() may return
Tops(h) == {p \in 1..Len(h) : \A q \in 1..Len(h) : ~Less(h[p], h[q])}

RemoveAt(h, p) == SubSeq(h, 1, p - 1) \o SubSeq(h, p + 1, Len(h))

push(h, x) == Append(h, x)

\* mutant: off-by-one capacity test, size() <= k
SizeBelowK_OffByOne(sz, kk) == IF kk < 0 THEN TRUE ELSE sz <= kk

\* max_heap.size() < static_cast<size_t>(k): a negative k converts to
\* 2^64 + k, which is larger than the size of any container
SizeBelowK(sz, kk) == IF kk < 0 THEN TRUE ELSE sz < kk

\* mutant: ties admitted, dist <= top
Admits_OrEqual(dist, top) == dist <= top.distance

\* mutant: comparison reversed, dist > top
Admits_Greater(dist, top) == dist > top.distance

\* dist < max_heap.top().distance
Admits(dist, top) == dist < top.distance

\* mutant: the reverse is left out
reverse_Omitted(s) == s

RECURSIVE reverse(_)
reverse(s) == IF s = <<>> THEN <<>> ELSE Append(reverse(Tail(s)), Head(s))

\* ---------------------------------------------------------------- Init
Init ==
    /\ query \in Vectors
    /\ database \in Databases
    /\ k \in Ks
    /\ i = 0
    /\ max_heap = <<>>
    /\ results = <<>>
    /\ cerr = 0
    /\ pc = "scan"

\* ---------------------------------------------------------------- scan loop
\* One iteration of: for (size_t i = 0; i < database.size(); i++)
ScanCommon ==
    /\ pc = "scan"
    /\ i < Len(database)
    /\ cerr' = IF DimMismatch(query, database[i + 1]) THEN cerr + 1 ELSE cerr
    /\ UNCHANGED <<query, database, k, results>>

\* if (max_heap.size() < k) max_heap.push({i, dist});
ScanInsert ==
    /\ ScanCommon
    /\ SizeBelowK(Len(max_heap), k)
    /\ max_heap' = push(max_heap,
                        SearchResult(i, l2_distance(query, database[i + 1])))
    /\ i' = i + 1
    /\ pc' = pc

\* else if (dist < max_heap.top().distance) { pop(); push({i, dist}); }
ScanReplace ==
    /\ ScanCommon
    /\ ~SizeBelowK(Len(max_heap), k)
    /\ \E p \in Tops(max_heap) :
        /\ Admits(l2_distance(query, database[i + 1]), max_heap[p])
        /\ max_heap' = push(RemoveAt(max_heap, p),
                            SearchResult(i, l2_distance(query, database[i + 1])))
    /\ i' = i + 1
    /\ pc' = pc

\* neither branch taken: the candidate is dropped
ScanDiscard ==
    /\ ScanCommon
    /\ ~SizeBelowK(Len(max_heap), k)
    /\ \E p \in Tops(max_heap) :
        ~Admits(l2_distance(query, database[i + 1]), max_heap[p])
    /\ max_heap' = max_heap
    /\ i' = i + 1
    /\ pc' = pc

\* k = 0: size() < 0 is false and max_heap.top() is read on an empty queue,
\* which is undefined.  The build may fault, or read some value that makes
\* the comparison false (entry dropped) or true (pop() of the empty queue,
\* then push).
ScanEmptyTop ==
    /\ ScanCommon
    /\ ~SizeBelowK(Len(max_heap), k)
    /\ max_heap = <<>>
    /\ \/ /\ pc' = "fault"
          /\ UNCHANGED <<i, max_heap>>
       \/ /\ pc' = pc
          /\ i' = i + 1
          /\ max_heap' = max_heap
       \/ /\ pc' = pc
          /\ i' = i + 1
          /\ max_heap' = push(max_heap,
                              SearchResult(i, l2_distance(query, database[i + 1])))

\* the for loop ends
ScanEnd ==
    /\ pc = "scan"
    /\ i = Len(database)
    /\ pc' = "drain"
    /\ UNCHANGED <<query, database, k, i, max_heap, results, cerr>>

\* ---------------------------------------------------------------- drain loop
\* while (!max_heap.empty()) { results.push_back(top()); pop(); }
Drain ==
    /\ pc = "drain"
    /\ max_heap # <<>>
    /\ \E p \in Tops(max_heap) :
        /\ results' = Append(results, max_heap[p])
        /\ max_heap' = RemoveAt(max_heap, p)
    /\ UNCHANGED <<query, database, k, i, cerr, pc>>

\* reverse(results.begin(), results.end()); return results;
Return ==
    /\ pc = "drain"
    /\ max_heap = <<>>
    /\ results' = reverse(results)
    /\ pc' = "done"
    /\ UNCHANGED <<query, database, k, i, max_heap, cerr>>

Next ==
    \/ ScanInsert
    \/ ScanReplace
    \/ ScanDiscard
    \/ ScanEmptyTop
    \/ ScanEnd
    \/ Drain
    \/ Return

Spec == Init /\ [][Next]_vars

\* ================================================================ properties
N == Len(database)

\* distance of database entry j (0-based) to the query, recomputed
Dist(j) == l2_distance(query, database[j + 1])

AllMatch == \A j \in 0..(N - 1) : ~DimMismatch(query, database[j + 1])

HasMismatch == \E j \in 0..(N - 1) : DimMismatch(query, database[j + 1])

Min(a, b) == IF a < b THEN a ELSE b

Indices(s) == {s[p].index : p \in DOMAIN s}

Members(s) == {s[p] : p \in DOMAIN s}

Distances(s) == [p \in DOMAIN s |-> s[p].distance]

MaxDistance(s) ==
    CHOOSE d \in {s[p].distance : p \in DOMAIN s} :
        \A p \in DOMAIN s : s[p].distance <= d

Ascending(s) == SortSeq(s, LAMBDA a, b : a < b)

TypeOK ==
    /\ query \in Vectors
    /\ database \in Databases
    /\ k \in Ks
    /\ i \in 0..N
    /\ cerr \in 0..N
    /\ pc \in {"scan", "drain", "done", "fault"}
    /\ \A p \in DOMAIN max_heap : max_heap[p].index \in 0..(N - 1)
    /\ \A p \in DOMAIN results : results[p].index \in 0..(N - 1)

\* ---------------------------------------------------------------- C1
\* C1: with k >= 1 and every database vector of the query's dimension, the
\* returned entries are min(k, n) distinct database positions carrying their
\* true distances, and every position left out is at a distance >= every
\* returned distance.
C1_KNearest ==
    (pc = "done" /\ k >= 1 /\ AllMatch) =>
        /\ Cardinality(Indices(results)) = Min(k, N)
        /\ \A p \in DOMAIN results :
            /\ results[p].index \in 0..(N - 1)
            /\ results[p].distance = Dist(results[p].index)
        /\ \A j \in (0..(N - 1)) \ Indices(results) :
            \A p \in DOMAIN results : Dist(j) >= results[p].distance

\* a search returned k entries and left out one strictly farther entry that
\* was scanned before a retained one
C1_Witness ==
    /\ pc = "done" /\ k >= 1 /\ AllMatch /\ N > k
    /\ \E j \in (0..(N - 1)) \ Indices(results) :
        /\ Dist(j) > MaxDistance(results)
        /\ \E m \in Indices(results) : j < m

\* ---------------------------------------------------------------- C2
\* C2: with k >= 1 the returned sequence has exactly min(k, n) entries; an
\* empty database returns an empty sequence.
C2_Size ==
    (pc = "done" /\ k >= 1) =>
        /\ Len(results) = Min(k, N)
        /\ (N = 0 => results = <<>>)

C2_Witness == pc = "done" /\ k >= 1 /\ N > k /\ Len(results) = k

\* ---------------------------------------------------------------- C3
\* C3: the returned sequence is ascending by distance, ties included.
C3_Sorted ==
    (pc = "done" /\ k >= 1) =>
        \A p \in 1..(Len(results) - 1) :
            results[p].distance <= results[p + 1].distance

\* a returned sequence with a strict step and a tie
C3_Witness ==
    /\ pc = "done" /\ k >= 1 /\ Len(results) >= 3
    /\ \E p \in 1..(Len(results) - 1) :
        results[p].distance < results[p + 1].distance
    /\ \E p \in 1..(Len(results) - 1) :
        results[p].distance = results[p + 1].distance

\* ---------------------------------------------------------------- C4
\* C4: when some database entry differs in dimension from the query (k valid),
\* the search never returns a result set and the sentinel distance is never
\* held as a candidate's distance.
C4_MismatchAborts ==
    (k >= 1 /\ HasMismatch) =>
        /\ pc # "done"
        /\ \A p \in DOMAIN max_heap : max_heap[p].distance # Sentinel
        /\ \A p \in DOMAIN results : results[p].distance # Sentinel

\* ---------------------------------------------------------------- C5
\* C5: with k <= 0 no database entry is scanned (no distance computed, no top
\* of an empty queue read) and the call never returns a result set.
C5_InvalidK ==
    (k <= 0) =>
        /\ i = 0
        /\ max_heap = <<>>
        /\ results = <<>>
        /\ pc \notin {"done", "fault"}

\* ---------------------------------------------------------------- C6
\* C6 as stated: whenever position j is returned, every earlier position at
\* the same distance is returned too (here for databases whose vectors all
\* have the query's dimension).
C6_FirstSeenWins ==
    (pc = "done" /\ k >= 1 /\ AllMatch) =>
        \A j \in Indices(results) : \A e \in 0..(j - 1) :
            Dist(e) = Dist(j) => e \in Indices(results)

\* C6 amended: whenever position j is returned and no entry scanned after j
\* is strictly closer than j, every earlier position at the same distance is
\* returned too.
C6_FirstSeenWinsUnlessCloserLater ==
    (pc = "done" /\ k >= 1) =>
        \A j \in Indices(results) : \A e \in 0..(j - 1) :
            (Dist(e) = Dist(j) /\ \A m \in (j + 1)..(N - 1) : Dist(m) >= Dist(j))
                => e \in Indices(results)

\* two tied entries are returned and a later entry at the same distance was
\* turned away
C6_Witness ==
    /\ pc = "done" /\ k >= 1
    /\ \E j \in Indices(results) : \E e \in Indices(results) :
        /\ e < j
        /\ Dist(e) = Dist(j)
        /\ \A m \in (j + 1)..(N - 1) : Dist(m) >= Dist(j)
        /\ \E m \in (j + 1)..(N - 1) :
            Dist(m) = Dist(j) /\ m \notin Indices(results)

\* ---------------------------------------------------------------- C7
\* C7: when every entry is at one common distance and 1 <= k <= n, the
\* returned positions are exactly 0..k-1, each at that distance, which is 0
\* when the entries equal the query.
C7_AllTied ==
    (pc = "done" /\ k >= 1 /\ k <= N /\ \A j \in 0..(N - 1) : Dist(j) = Dist(0)) =>
        /\ Indices(results) = 0..(k - 1)
        /\ \A p \in DOMAIN results : results[p].distance = Dist(0)
        /\ ((\A j \in 0..(N - 1) : database[j + 1] = query) =>
                \A p \in DOMAIN results : results[p].distance = 0)

\* identical vectors equal to the query, more of them than k
C7_Witness ==
    /\ pc = "done" /\ k >= 1 /\ k < N
    /\ \A j \in 0..(N - 1) : database[j + 1] = query
    /\ Len(results) = k

\* ---------------------------------------------------------------- C8
\* C8: no position is returned twice and every returned position is in
\* 0..n-1.
C8_DistinctValidIndices ==
    (pc = "done" /\ k >= 1) =>
        /\ \A p \in DOMAIN results : results[p].index \in 0..(N - 1)
        /\ \A p, q \in DOMAIN results : p # q => results[p].index # results[q].index

\* the last database position is returned among several
C8_Witness ==
    /\ pc = "done" /\ k >= 1 /\ Len(results) >= 2
    /\ (N - 1) \in Indices(results)

\* ---------------------------------------------------------------- C9
\* C9: in one scan step with k >= 1: below k retained the candidate is
\* inserted; at k retained it is admitted iff strictly closer than the worst
\* retained distance, replacing exactly one candidate of that worst distance;
\* otherwise the retained set is unchanged.  Never more than k are retained.
C9_Step ==
    (k >= 1 /\ pc = "scan" /\ i' = i + 1) =>
        LET c == SearchResult(i, Dist(i)) IN
        /\ Len(max_heap) <= k
        /\ Len(max_heap') <= k
        /\ Len(max_heap) < k =>
            /\ Len(max_heap') = Len(max_heap) + 1
            /\ Members(max_heap') = Members(max_heap) \cup {c}
        /\ (Len(max_heap) = k /\ c.distance < MaxDistance(max_heap)) =>
            /\ Len(max_heap') = k
            /\ \E x \in Members(max_heap) :
                /\ x.distance = MaxDistance(max_heap)
                /\ Members(max_heap') = (Members(max_heap) \ {x}) \cup {c}
        /\ (Len(max_heap) = k /\ c.distance >= MaxDistance(max_heap)) =>
            max_heap' = max_heap

C9_Admission == [][C9_Step]_vars

\* k candidates are retained after one was evicted and a tie was turned away
C9_Witness ==
    /\ pc = "scan" /\ k >= 1 /\ Len(max_heap) = k
    /\ \E j \in (0..(i - 1)) \ Indices(max_heap) : Dist(j) > MaxDistance(max_heap)
    /\ \E j \in (0..(i - 1)) \ Indices(max_heap) : Dist(j) = MaxDistance(max_heap)

\* ---------------------------------------------------------------- C10
\* C10: during the scan with k >= 1 and matching dimensions, after m entries
\* the retained set holds min(k, m) candidates with distinct positions below
\* m, and their distances are the min(k, m) smallest distances of entries
\* 0..m-1 as a multiset; once k are retained the worst retained distance
\* never increases.
C10_Retained ==
    (k >= 1 /\ AllMatch /\ pc = "scan") =>
        /\ Len(max_heap) = Min(k, i)
        /\ Cardinality(Indices(max_heap)) = Len(max_heap)
        /\ \A p \in DOMAIN max_heap : max_heap[p].index \in 0..(i - 1)
        /\ Ascending(Distances(max_heap)) =
               SubSeq(Ascending([j \in 1..i |-> Dist(j - 1)]), 1, Min(k, i))

C10_WorstStep ==
    (k >= 1 /\ AllMatch /\ pc = "scan" /\ pc' = "scan" /\ Len(max_heap) = k) =>
        MaxDistance(max_heap') <= MaxDistance(max_heap)

C10_LoopInvariant == []C10_Retained /\ [][C10_WorstStep]_vars

\* mid-scan, k retained, an earlier entry has been replaced by a closer one
C10_Witness ==
    /\ pc = "scan" /\ k >= 1 /\ AllMatch /\ Len(max_heap) = k /\ i > k
    /\ \E j \in (0..(i - 1)) \ Indices(max_heap) :
        \E m \in Indices(max_heap) : j < m /\ Dist(m) < Dist(j)

====
